---- MODULE Spec2Model ----
(***************************************************************************)
(* GaussianDiffusion (diffusion/diffusion.py): the inference path of       *)
(* forward and the three samplers it drives, p_sample (ancestral),         *)
(* p_sample_ddim and p_sample_plms, as a state machine over one engine.    *)
(*                                                                         *)
(* What is tracked is the control of the samplers: which timesteps are     *)
(* stepped, which oracle (denoise_fn) calls are made and at which          *)
(* timestep, which indices are looked up in the coefficient tables, what   *)
(* the engine's noise_list deque holds and how a call ends.  A deque is an *)
(* object: forward binds a new one to self.noise_list, and a step of        *)
(* p_sample_plms keeps working on the one it took, so deques live in a      *)
(* small heap and noise_list is a reference into it.  A step of             *)
(* p_sample_plms is not atomic and takes no lock: each oracle call leaves   *)
(* the class, and each len(noise_list), each noise_list[-j] and the         *)
(* append is an access of its own to a deque other callers may hold, so a   *)
(* step is one action per access.  Tensor values                            *)
(* are not computed: a noise prediction is identified by the call and the  *)
(* timestep it was predicted at, and of the ancestral update only the term *)
(* nonzero_mask * noise is kept (the mean and the positive factor          *)
(* exp(0.5 * log_variance) do not depend on the fresh noise).              *)
(***************************************************************************)
EXTENDS Integers, Sequences, FiniteSets, TLC

\* ------------------------------------------------------------------ bounds
\* Largest small value of the k_step argument, and the engine's own k_step.
MaxStart == 5
\* Largest small value of infer_speedup.
MaxSpeedup == 2
\* Largest k_step of the calls that share the engine in SpecConc.
MaxShared == 3
\* Most predictions pushed onto one deque before direct calls of
\* p_sample_plms stop.
MaxPushed == 6

\* ------------------------------------------------------- program constants
\* timesteps the engine is constructed with (the end-to-end scenario's T).
Timesteps == 100
\* infer_speedup's default value.
DefaultSpeedup == 10
\* deque(maxlen=4)
MaxLen == 4

\* ------------------------------------------------------------------ inputs
Calls == {1, 2}
\* The one caller of the sequential specification.
Serial == {1}
\* method: the selectors the code names, the two the specification names
\* besides, an unknown one, and Python's None.
CodeSelectors == {"dpm-solver", "unipc", "pndm", "ddim"}
SpecSelectors == {"ancestral", "ddim", "plms", "dpm-solver", "unipc"}
Methods == CodeSelectors \cup SpecSelectors \cup {"euler", "None"}
Speedups == (1..MaxSpeedup) \cup {DefaultSpeedup}
KSteps == (1..MaxStart) \cup {Timesteps}
\* (gt_spec given?, k_step is None?, k_step): gt_spec with every k_step, and
\* each way of leaving one of the two out.
StartArgs ==
    {[gt_spec |-> TRUE, k_none |-> FALSE, k_step |-> k] : k \in KSteps}
    \cup {[gt_spec |-> TRUE, k_none |-> TRUE, k_step |-> 0],
          [gt_spec |-> FALSE, k_none |-> TRUE, k_step |-> 0],
          [gt_spec |-> FALSE, k_none |-> FALSE, k_step |-> 1]}
\* t of a direct call of p_sample_plms.
DirectSteps == {0, MaxStart}
\* condition.shape[0]
Batches == {1, 2}
\* One element of the fresh noise of p_sample, in units of the step's
\* standard deviation.
Noises == {-1, 1}

\* The deque objects that can be referenced at one time: the engine's and
\* the one each caller's running step took.
Slots == 1..(Cardinality(Calls) + 1)

VARIABLES
    engine,      \* the constructed GaussianDiffusion: num_timesteps, k_step
    noise_list,  \* self.noise_list: the deque object the engine refers to
    deques,      \* deques[s]: the entries of deque object s
    pushed,      \* pushed[s]: every prediction appended to s, in order
    call         \* call[c]: the locals of caller c's call, and its log

vars == <<engine, noise_list, deques, pushed, call>>

\* ----------------------------------------------------------------- helpers
\* range(0, stop + 1, step): the range with its end included.
RangeInclusive(stop, step) ==
    [k \in 1..((stop \div step) + 1) |-> (k - 1) * step]

\* range(0, stop, step) as a sequence.
Range(stop, step) ==
    [k \in 1..((stop + step - 1) \div step) |-> (k - 1) * step]

\* reversed(seq)
Reversed(s) == [k \in 1..Len(s) |-> s[Len(s) + 1 - k]]

\* t - interval with no floor.
PrevIndexUnfloored(t, interval) == t - interval

\* torch.max(t - interval, torch.zeros_like(t)): the index of a_prev.
PrevIndex(t, interval) == IF t - interval > 0 THEN t - interval ELSE 0

\* The first argument, whatever the second.
PyMaxFirst(a, b) == a

\* Python's builtin max(a, b): b when b > a, else a.
PyMax(a, b) == IF b > a THEN b ELSE a

\* bool() of the comparison of a tensor of b elements with a number raises
\* for more than one element.
AmbiguousTruth(b) == b > 1

\* (t == 0).float(), the `1 -` forgotten.
NonzeroMaskInverted(t) == IF t = 0 THEN 1 ELSE 0

\* nonzero_mask = 1 - (t == 0).float()
NonzeroMask(t) == 1 - (IF t = 0 THEN 1 ELSE 0)

\* append on a deque with no maxlen.
DequeAppendUnbounded(d, e) == Append(d, e)

\* deque(maxlen=4).append(e): a full deque drops its leftmost entry.
DequeAppend(d, e) ==
    IF Len(d) = MaxLen THEN Append(Tail(d), e) ELSE Append(d, e)

\* The history left as the last run left it.
KeepNoiseList(old) == old

\* self.noise_list = deque(maxlen=4): the history a pndm run starts with.
ResetNoiseList(old) == << >>

\* A dispatch whose final else falls through to the ancestral loop.
DispatchLenient(method, infer_speedup) ==
    IF method # "None" /\ infer_speedup > 1
       /\ method \in {"dpm-solver", "unipc", "pndm", "ddim"}
    THEN method
    ELSE "ancestral"

\* A dispatch on the selector names of the specification: plms for pndm.
DispatchSpecNames(method, infer_speedup) ==
    IF method # "None" /\ infer_speedup > 1
    THEN IF method \in {"dpm-solver", "unipc", "ddim"}
         THEN method
         ELSE IF method = "plms" THEN "pndm" ELSE "NotImplementedError"
    ELSE "ancestral"

\* The branch of forward's inference path: a sampler, or the error raised.
Dispatch(method, infer_speedup) ==
    IF method # "None" /\ infer_speedup > 1
    THEN IF method \in {"dpm-solver", "unipc", "pndm", "ddim"}
         THEN method
         ELSE "NotImplementedError"
    ELSE "ancestral"

\* t of forward: self.k_step unless both gt_spec and k_step are given.
StartStep(sa) ==
    IF ~sa.gt_spec \/ sa.k_none THEN engine.k_step ELSE sa.k_step

\* The table index q_sample reads when it noises a supplied gt_spec.
StartLookups(sa) ==
    IF ~sa.gt_spec \/ sa.k_none THEN {} ELSE {StartStep(sa) - 1}

\* The deque objects still referenced, by the engine or by a running step.
Live(ref, calls) == {ref} \cup {calls[d].nl : d \in Calls}

\* The heap with the objects nothing refers to any more collected.
Sweep(h, ref, calls) ==
    [s \in Slots |-> IF s \in Live(ref, calls) THEN h[s] ELSE << >>]

\* A deque object no running step refers to, for deque(maxlen=4).
NewDeque ==
    LET free == Slots \ {call[d].nl : d \in Calls}
    IN CHOOSE s \in free : \A u \in free : s <= u

\* The samplers whose steps are p_sample_plms: forward's pndm loop, and a
\* direct call of the method.
PlmsSamplers == {"pndm", "p_sample_plms"}

IdleCall ==
    [pc |-> "idle", method |-> "None", infer_speedup |-> 1,
     gt_spec |-> FALSE, k_none |-> TRUE, k_step |-> 0,
     use_tqdm |-> FALSE, b |-> 1,
     t |-> 0, sampler |-> "none", todo |-> << >>, nl |-> 0,
     want |-> 0, read |-> << >>,
     steps |-> << >>, oracle |-> << >>, used |-> << >>, lookups |-> {},
     noise |-> 0, noise_term |-> 0, bar |-> 0, budget |-> 0,
     follows |-> FALSE, outcome |-> "none"]

\* The count of a tqdm.tqdm iterator, when there is one, after one more
\* iteration of the loop body has completed.
Tick(c) == IF call[c].use_tqdm THEN call[c].bar + 1 ELSE call[c].bar

OracleCall(t, kind) == [at |-> t, kind |-> kind]

\* ------------------------------------------------------------------- state
Init ==
    /\ engine = [num_timesteps |-> Timesteps, k_step |-> MaxStart]
    /\ noise_list = 1
    /\ deques = [s \in Slots |-> << >>]
    /\ pushed = [s \in Slots |-> << >>]
    /\ call = [c \in Calls |-> IdleCall]

\* ----------------------------------------------------------------- actions
\* forward(..., infer=True): the initial state, the dispatch on method and
\* infer_speedup, and the iterator of the loop that was chosen.
forward(c, method, infer_speedup, sa, use_tqdm, b) ==
    /\ call[c].pc = "idle"
    /\ LET t == StartStep(sa)
           branch == Dispatch(method, infer_speedup)
           entered == [IdleCall EXCEPT
                          !.method = method, !.infer_speedup = infer_speedup,
                          !.gt_spec = sa.gt_spec, !.k_none = sa.k_none,
                          !.k_step = sa.k_step, !.use_tqdm = use_tqdm,
                          !.b = b, !.t = t, !.lookups = StartLookups(sa),
                          !.follows = (deques[noise_list] # << >>)]
       IN
       CASE branch \in {"dpm-solver", "unipc"} ->
              /\ call' = [call EXCEPT ![c] =
                     [entered EXCEPT !.pc = "solver", !.sampler = branch,
                                     !.budget = t \div infer_speedup]]
              /\ UNCHANGED <<noise_list, deques, pushed>>
         [] branch = "pndm" ->
              \* self.noise_list = deque(maxlen=4): a new object; a step
              \* that took the old one keeps it.
              LET nc == [call EXCEPT ![c] =
                     [entered EXCEPT !.pc = "loop", !.sampler = "pndm",
                         !.todo = Reversed(Range(t, infer_speedup))]]
              IN
              /\ noise_list' = NewDeque
              /\ deques' = Sweep([deques EXCEPT ![NewDeque] =
                                     ResetNoiseList(deques[noise_list])],
                                 NewDeque, nc)
              /\ pushed' = Sweep([pushed EXCEPT ![NewDeque] =
                                     ResetNoiseList(pushed[noise_list])],
                                 NewDeque, nc)
              /\ call' = nc
         [] branch = "ddim" ->
              /\ call' = [call EXCEPT ![c] =
                     [entered EXCEPT !.pc = "loop", !.sampler = "ddim",
                         !.todo = Reversed(Range(t, infer_speedup))]]
              /\ UNCHANGED <<noise_list, deques, pushed>>
         [] branch = "NotImplementedError" ->
              /\ call' = [call EXCEPT ![c] =
                     [entered EXCEPT !.pc = "done",
                                     !.outcome = "NotImplementedError"]]
              /\ UNCHANGED <<noise_list, deques, pushed>>
         [] branch = "ancestral" ->
              \* `tqdm(...)` calls the module tqdm, which is not callable.
              /\ call' = [call EXCEPT ![c] =
                     IF use_tqdm
                     THEN [entered EXCEPT !.pc = "done", !.sampler = "ancestral",
                                          !.outcome = "TypeError"]
                     ELSE [entered EXCEPT !.pc = "loop", !.sampler = "ancestral",
                                          !.todo = Reversed(Range(t, 1))]]
              /\ UNCHANGED <<noise_list, deques, pushed>>
    /\ UNCHANGED engine

\* One iteration of the ancestral loop: p_sample at the next timestep.
p_sample(c) ==
    /\ call[c].pc = "loop"
    /\ call[c].sampler = "ancestral"
    /\ call[c].todo # << >>
    /\ \E noise \in Noises :
         LET i == Head(call[c].todo) IN
         call' = [call EXCEPT ![c] =
             [@ EXCEPT !.todo = Tail(@),
                       !.lookups = @ \cup {i},
                       !.oracle = Append(@, OracleCall(i, "step")),
                       !.noise = noise,
                       !.noise_term = NonzeroMask(i) * noise,
                       !.steps = Append(@, i),
                       !.bar = Tick(c)]]
    /\ UNCHANGED <<engine, noise_list, deques, pushed>>

\* One iteration of the ddim loop: p_sample_ddim at the next timestep.
p_sample_ddim(c) ==
    /\ call[c].pc = "loop"
    /\ call[c].sampler = "ddim"
    /\ call[c].todo # << >>
    /\ LET i == Head(call[c].todo)
           interval == call[c].infer_speedup
       IN
       call' = [call EXCEPT ![c] =
           [@ EXCEPT !.todo = Tail(@),
                     !.lookups = @ \cup {i, PrevIndex(i, interval)},
                     !.oracle = Append(@, OracleCall(i, "step")),
                     !.steps = Append(@, i),
                     !.bar = Tick(c)]]
    /\ UNCHANGED <<engine, noise_list, deques, pushed>>

\* The indices get_x_pred looks up at timestep t.
get_x_pred(t, interval) == {t, PrevIndex(t, interval)}

\* The end of a step of p_sample_plms by caller c, which read the entries
\* `read` of the history: x_prev = get_x_pred(x, noise_pred_prime, t) and
\* noise_list.append(noise_pred), on the deque the step took.
plms_append(c, read) ==
    LET i == Head(call[c].todo)
        noise_pred == [call |-> c, at |-> i]
        nc == [call EXCEPT ![c] =
                  [@ EXCEPT !.todo = Tail(@),
                            !.lookups = @ \cup get_x_pred(i, call[c].infer_speedup),
                            !.used = Append(@, read),
                            !.steps = Append(@, i),
                            !.bar = Tick(c),
                            !.nl = 0, !.want = 0, !.read = << >>,
                            !.pc = "loop"]]
    IN
    /\ call' = nc
    /\ deques' = Sweep([deques EXCEPT ![call[c].nl] = DequeAppend(@, noise_pred)],
                       noise_list, nc)
    /\ pushed' = Sweep([pushed EXCEPT ![call[c].nl] = Append(@, noise_pred)],
                       noise_list, nc)
    /\ UNCHANGED <<engine, noise_list>>

\* p_sample_plms up to its first oracle call: the step takes the deque the
\* engine refers to now (noise_list = self.noise_list) and calls denoise_fn
\* at its timestep.  Other callers run while the oracle works.
p_sample_plms(c) ==
    /\ call[c].pc = "loop"
    /\ call[c].sampler \in PlmsSamplers
    /\ call[c].todo # << >>
    /\ call' = [call EXCEPT ![c] =
           [@ EXCEPT !.nl = noise_list,
                     !.oracle = Append(@, OracleCall(Head(call[c].todo), "step")),
                     !.pc = "oracle"]]
    /\ UNCHANGED <<engine, noise_list, deques, pushed>>

\* p_sample_plms from the return of the first oracle call: the test
\* `if len(noise_list) == 0` on the deque taken.  An empty history
\* bootstraps, up to the second oracle call; any other goes on to the elif.
plms_branch(c) ==
    /\ call[c].pc = "oracle"
    /\ LET i == Head(call[c].todo)
           interval == call[c].infer_speedup
           nl == deques[call[c].nl]
       IN
       IF Len(nl) = 0
       THEN IF AmbiguousTruth(call[c].b)
            THEN \* max(t - interval, 0) on a batch of several timesteps raises
                 LET nc == [call EXCEPT ![c] =
                        [@ EXCEPT !.pc = "done", !.outcome = "RuntimeError",
                                  !.lookups = @ \cup get_x_pred(i, interval),
                                  !.nl = 0]]
                 IN
                 /\ call' = nc
                 /\ deques' = Sweep(deques, noise_list, nc)
                 /\ pushed' = Sweep(pushed, noise_list, nc)
                 /\ UNCHANGED <<engine, noise_list>>
            ELSE /\ call' = [call EXCEPT ![c] =
                        [@ EXCEPT !.lookups = @ \cup get_x_pred(i, interval),
                                  !.oracle = Append(@,
                                      OracleCall(PyMax(i - interval, 0), "boot")),
                                  !.pc = "boot"]]
                 /\ UNCHANGED <<engine, noise_list, deques, pushed>>
       ELSE /\ call' = [call EXCEPT ![c] = [@ EXCEPT !.pc = "elif1"]]
            /\ UNCHANGED <<engine, noise_list, deques, pushed>>

\* `elif len(noise_list) == 1`: a second reading of the length, which
\* another caller may have changed since the first.  The branch taken reads
\* one entry.
plms_elif_one(c) ==
    /\ call[c].pc = "elif1"
    /\ call' = [call EXCEPT ![c] =
           IF Len(deques[call[c].nl]) = 1
           THEN [@ EXCEPT !.want = 1, !.pc = "read"]
           ELSE [@ EXCEPT !.pc = "elif2"]]
    /\ UNCHANGED <<engine, noise_list, deques, pushed>>

\* `elif len(noise_list) == 2` and its else: a third reading of the length.
\* The elif reads two entries, the else three.
plms_elif_two(c) ==
    /\ call[c].pc = "elif2"
    /\ call' = [call EXCEPT ![c] =
           [@ EXCEPT !.want = IF Len(deques[call[c].nl]) = 2 THEN 2 ELSE 3,
                     !.pc = "read"]]
    /\ UNCHANGED <<engine, noise_list, deques, pushed>>

\* One subscript of the branch taken, noise_list[-1], then noise_list[-2],
\* then noise_list[-3], in the order the expression evaluates them: each
\* reads the deque as it is at that moment.  A subscript beyond the length
\* raises IndexError.
plms_read(c) ==
    /\ call[c].pc = "read"
    /\ LET nl == deques[call[c].nl]
           j == Len(call[c].read) + 1
       IN
       IF j > Len(nl)
       THEN LET nc == [call EXCEPT ![c] =
                   [@ EXCEPT !.pc = "done", !.outcome = "IndexError",
                             !.nl = 0, !.want = 0, !.read = << >>]]
            IN
            /\ call' = nc
            /\ deques' = Sweep(deques, noise_list, nc)
            /\ pushed' = Sweep(pushed, noise_list, nc)
            /\ UNCHANGED <<engine, noise_list>>
       ELSE /\ call' = [call EXCEPT ![c] =
                   [@ EXCEPT !.read = Append(@, nl[Len(nl) + 1 - j]),
                             !.pc = IF j = call[c].want THEN "append" ELSE "read"]]
            /\ UNCHANGED <<engine, noise_list, deques, pushed>>

\* The end of a step that read the history: get_x_pred and
\* noise_list.append(noise_pred), after the last subscript.
plms_update(c) ==
    /\ call[c].pc = "append"
    /\ plms_append(c, call[c].read)

\* p_sample_plms from the return of the bootstrap's oracle call: the two
\* predictions are averaged (no entry of the history is read) and the step
\* ends.
plms_bootstrap(c) ==
    /\ call[c].pc = "boot"
    /\ plms_append(c, << >>)

\* p_sample_plms called directly, not through forward: one step at timestep
\* t on the history as the engine holds it.
direct(c, t, interval, b) ==
    /\ call[c].pc = "idle"
    /\ Len(pushed[noise_list]) < MaxPushed
    /\ call' = [call EXCEPT ![c] =
           [IdleCall EXCEPT !.pc = "loop", !.sampler = "p_sample_plms",
                            !.infer_speedup = interval, !.b = b,
                            !.t = t + 1, !.todo = <<t>>,
                            !.follows = (deques[noise_list] # << >>)]]
    /\ UNCHANGED <<engine, noise_list, deques, pushed>>

\* dpm_solver.sample / uni_pc.sample: the integration is handed to the
\* solver with the step budget t // infer_speedup.
solver_sample(c) ==
    /\ call[c].pc = "solver"
    /\ call' = [call EXCEPT ![c] = [@ EXCEPT !.pc = "done", !.outcome = "output"]]
    /\ UNCHANGED <<engine, noise_list, deques, pushed>>

\* The loop is exhausted: forward returns denorm_spec(x) (a direct call of
\* p_sample_plms returns x_prev).
finish(c) ==
    /\ call[c].pc = "loop"
    /\ call[c].todo = << >>
    /\ call' = [call EXCEPT ![c] = [@ EXCEPT !.pc = "done", !.outcome = "output"]]
    /\ UNCHANGED <<engine, noise_list, deques, pushed>>

\* The caller has its result (or its exception); the locals are gone.
return(c) ==
    /\ call[c].pc = "done"
    /\ call' = [call EXCEPT ![c] = IdleCall]
    /\ UNCHANGED <<engine, noise_list, deques, pushed>>

\* ----------------------------------------------------------- specifications
\* Spec: one caller makes inference calls one after another on the engine.
infer(c) ==
    \E method \in Methods, infer_speedup \in Speedups, sa \in StartArgs,
       use_tqdm \in BOOLEAN, b \in Batches :
        forward(c, method, infer_speedup, sa, use_tqdm, b)

Next ==
    \E c \in Serial :
        \/ infer(c)
        \/ p_sample(c)
        \/ p_sample_ddim(c)
        \/ p_sample_plms(c)
        \/ plms_branch(c)
        \/ plms_elif_one(c)
        \/ plms_elif_two(c)
        \/ plms_read(c)
        \/ plms_update(c)
        \/ plms_bootstrap(c)
        \/ solver_sample(c)
        \/ finish(c)
        \/ return(c)

Spec == Init /\ [][Next]_vars

\* SpecConc: two callers run pndm inference on the same engine; a caller
\* may run while the other is inside an oracle call or between any two of
\* its accesses to the deque.
infer_pndm(c) ==
    \E infer_speedup \in 2..MaxSpeedup, k \in 1..MaxShared, b \in Batches :
        forward(c, "pndm", infer_speedup,
                [gt_spec |-> TRUE, k_none |-> FALSE, k_step |-> k], FALSE, b)

NextConc ==
    \E c \in Calls :
        \/ infer_pndm(c)
        \/ p_sample_plms(c)
        \/ plms_branch(c)
        \/ plms_elif_one(c)
        \/ plms_elif_two(c)
        \/ plms_read(c)
        \/ plms_update(c)
        \/ plms_bootstrap(c)
        \/ finish(c)
        \/ return(c)

SpecConc == Init /\ [][NextConc]_vars

\* SpecPair: a call with the progress display, then the same call without.
infer_shown ==
    /\ call[2].pc = "idle"
    /\ \E method \in Methods, infer_speedup \in Speedups, sa \in StartArgs,
          b \in Batches :
           forward(1, method, infer_speedup, sa, TRUE, b)

infer_hidden ==
    /\ call[1].pc = "done"
    /\ forward(2, call[1].method, call[1].infer_speedup,
               [gt_spec |-> call[1].gt_spec, k_none |-> call[1].k_none,
                k_step |-> call[1].k_step],
               FALSE, call[1].b)

NextPair ==
    \/ infer_shown
    \/ infer_hidden
    \/ \E c \in Calls :
        \/ p_sample(c)
        \/ p_sample_ddim(c)
        \/ p_sample_plms(c)
        \/ plms_branch(c)
        \/ plms_elif_one(c)
        \/ plms_elif_two(c)
        \/ plms_read(c)
        \/ plms_update(c)
        \/ plms_bootstrap(c)
        \/ solver_sample(c)
        \/ finish(c)

SpecPair == Init /\ [][NextPair]_vars

\* SpecDirect: one caller mixes pndm runs through forward with direct calls
\* of p_sample_plms, which continue the history as they find it.
infer_long(c) ==
    \E infer_speedup \in Speedups \ {1}, k \in KSteps, b \in Batches :
        forward(c, "pndm", infer_speedup,
                [gt_spec |-> TRUE, k_none |-> FALSE, k_step |-> k], FALSE, b)

call_direct(c) ==
    \E t \in DirectSteps, interval \in Speedups, b \in Batches :
        direct(c, t, interval, b)

NextDirect ==
    \E c \in Serial :
        \/ infer_long(c)
        \/ call_direct(c)
        \/ p_sample_plms(c)
        \/ plms_branch(c)
        \/ plms_elif_one(c)
        \/ plms_elif_two(c)
        \/ plms_read(c)
        \/ plms_update(c)
        \/ plms_bootstrap(c)
        \/ finish(c)
        \/ return(c)

SpecDirect == Init /\ [][NextDirect]_vars

\* ---------------------------------------------------- vocabulary of claims
SeqSet(q) == {q[k] : k \in DOMAIN q}

StrictlyDecreasing(q) == \A k \in 1..(Len(q) - 1) : q[k] > q[k + 1]

\* The last n entries of q (all of q when it is shorter).
LastOf(q, n) == IF Len(q) <= n THEN q ELSE SubSeq(q, Len(q) - n + 1, Len(q))

Min(a, b) == IF a < b THEN a ELSE b

Running(c) == call[c].pc # "idle"

Ended(c) == call[c].pc = "done"

\* The sampler the specification's selector names.
SamplerNamed(method) == IF method = "plms" THEN "pndm" ELSE method

\* ----------------------------------------------------------------------- C1
\* C1: a ddim call (speedup s > 1, start step t) steps exactly the
\* timesteps {i : 0 <= i < t, i a multiple of s}, in strictly decreasing
\* order, with exactly one oracle call per step at that step's timestep; it
\* ends with the step at timestep 0; for t = 100 and s = 10 the steps are
\* 90, 80, ..., 0.
C1_DdimSchedule ==
    \A c \in Calls :
        call[c].sampler = "ddim" =>
            LET r == call[c]
                run == r.steps \o r.todo
            IN
            /\ r.infer_speedup > 1
            /\ StrictlyDecreasing(run)
            /\ SeqSet(run) = {i \in 0..(r.t - 1) : i % r.infer_speedup = 0}
            /\ Len(r.oracle) = Len(r.steps)
            /\ \A k \in DOMAIN r.steps :
                   r.oracle[k] = [at |-> r.steps[k], kind |-> "step"]
            /\ (r.pc = "done" =>
                   /\ r.todo = << >>
                   /\ r.outcome = "output"
                   /\ r.steps[Len(r.steps)] = 0)
            /\ (r.pc = "done" /\ r.t = 100 /\ r.infer_speedup = 10 =>
                   r.steps = <<90, 80, 70, 60, 50, 40, 30, 20, 10, 0>>)

C1_Witness ==
    \E c \in Calls :
        /\ call[c].sampler = "ddim"
        /\ call[c].pc = "done"
        /\ call[c].t = 100
        /\ call[c].infer_speedup = 10
        /\ Len(call[c].steps) = 10
        /\ Len(call[c].oracle) = 10

\* ----------------------------------------------------------------------- C2
\* C2: the noise history never holds more than 4 entries, and it holds the
\* most recent predictions pushed, in order of arrival (a push onto a full
\* history removes the oldest entry).
C2_HistoryBound ==
    \A s \in Slots :
        /\ Len(deques[s]) <= 4
        /\ deques[s] = LastOf(pushed[s], 4)

C2_Witness ==
    /\ Len(pushed[noise_list]) > 5
    /\ Len(deques[noise_list]) = 4
    /\ deques[noise_list][1] = pushed[noise_list][Len(pushed[noise_list]) - 3]
    /\ \E c \in Calls : call[c].sampler = "p_sample_plms" /\ call[c].follows

\* ----------------------------------------------------------------------- C3
\* C3: the history read by each step of a pndm call holds only predictions
\* pushed by that same call, and as many of them as when the call runs
\* alone (min(k - 1, 3) at its k-th step), also when two calls on the same
\* engine are interleaved.
C3_CallLocalHistory ==
    \A c \in Calls :
        \A k \in DOMAIN call[c].used :
            /\ Len(call[c].used[k]) = Min(k - 1, 3)
            /\ \A j \in DOMAIN call[c].used[k] : call[c].used[k][j].call = c

\* ----------------------------------------------------------------------- C4
\* C4 (as claimed): a call whose selector names no sampling algorithm, of
\* the code or of the specification, runs no sampling step and ends in an
\* error, whatever the speedup.  Any error raised is counted as the claimed
\* configuration error, so that only a call that samples refutes it.
C4_UnknownAlwaysRejected ==
    \A c \in Calls :
        Running(c) /\ call[c].method \notin (CodeSelectors \cup SpecSelectors \cup {"None"}) =>
            /\ call[c].steps = << >>
            /\ call[c].oracle = << >>
            /\ (Ended(c) => call[c].outcome # "output")

\* C4 (amended): with speedup > 1 a call whose selector is a name other
\* than dpm-solver, unipc, pndm and ddim ends in NotImplementedError with
\* no sampling step and no oracle call; with speedup 1 the selector is not
\* examined and the call takes the ancestral loop.
C4_UnknownRejectedWhenSped ==
    \A c \in Calls :
        Running(c) /\ call[c].method \notin (CodeSelectors \cup {"None"}) =>
            IF call[c].infer_speedup > 1
            THEN /\ Ended(c)
                 /\ call[c].outcome = "NotImplementedError"
                 /\ call[c].steps = << >>
                 /\ call[c].oracle = << >>
            ELSE call[c].sampler = "ancestral"

C4_Witness ==
    \E c \in Calls :
        /\ Ended(c)
        /\ call[c].method = "euler"
        /\ call[c].infer_speedup > 1
        /\ call[c].outcome = "NotImplementedError"

\* ----------------------------------------------------------------------- C5
\* C5 (as claimed): a call with any of the selectors ancestral, ddim, plms,
\* dpm-solver, unipc and any speedup >= 1 runs the sampler of that name and
\* returns an output.  Stated for calls of batch size 1 with the progress
\* display off.
C5_SpecSelectorsAccepted ==
    \A c \in Calls :
        Ended(c) /\ call[c].method \in SpecSelectors
                 /\ ~call[c].use_tqdm /\ call[c].b = 1 =>
            /\ call[c].outcome = "output"
            /\ call[c].sampler = SamplerNamed(call[c].method)

\* C5 (amended): with speedup > 1 the selectors dpm-solver, unipc, pndm and
\* ddim run the sampler of that name (pndm, not plms, is the PLMS sampler),
\* while plms and ancestral end in NotImplementedError; with speedup 1 every
\* selector runs the ancestral loop.  A ddim run returns an output, and so
\* does a pndm run of batch size 1.
C5_CodeSelectorsDispatch ==
    \A c \in Calls :
        Running(c) =>
            LET r == call[c] IN
            /\ (r.infer_speedup > 1 /\ r.method \in CodeSelectors =>
                    r.sampler = r.method)
            /\ (r.infer_speedup > 1 /\ r.method \in {"plms", "ancestral"} =>
                    Ended(c) /\ r.outcome = "NotImplementedError"
                             /\ r.steps = << >>)
            /\ (r.infer_speedup = 1 => r.sampler = "ancestral")
            /\ (Ended(c) /\ r.sampler = "ddim" => r.outcome = "output")
            /\ (Ended(c) /\ r.sampler = "pndm" /\ r.b = 1 => r.outcome = "output")

C5_Witness ==
    \E c \in Calls :
        /\ Ended(c)
        /\ call[c].method = "pndm"
        /\ call[c].sampler = "pndm"
        /\ call[c].outcome = "output"
        /\ Len(call[c].steps) > 1

\* ----------------------------------------------------------------------- C6
\* C6: a call with the progress display and the same call without it run
\* the same sampler steps and oracle calls and end in the same outcome.
C6_ProgressNotControl ==
    Ended(1) /\ Ended(2) =>
        /\ call[1].steps = call[2].steps
        /\ call[1].oracle = call[2].oracle
        /\ call[1].outcome = call[2].outcome

\* ----------------------------------------------------------------------- C7
\* C7: the noise mask of an ancestral step is 0 at t = 0 and 1 otherwise, so
\* the step at t = 0 adds nothing that depends on the fresh noise: its noise
\* term is the same for every value of the noise drawn.
C7_FinalStepDeterministic ==
    \A c \in Calls :
        call[c].sampler = "ancestral" /\ call[c].steps # << >> =>
            LET r == call[c]
                i == r.steps[Len(r.steps)]
            IN
            /\ r.noise \in Noises
            /\ (i = 0 => r.noise_term = 0)
            /\ (i # 0 => r.noise_term = r.noise)

C7_Witness ==
    \E c \in Calls :
        /\ call[c].sampler = "ancestral"
        /\ Len(call[c].steps) > 1
        /\ call[c].steps[Len(call[c].steps)] = 0
        /\ call[c].noise = 1
        /\ call[c].noise_term = 0

\* ----------------------------------------------------------------------- C8
\* C8: a pndm run started through forward finds the history empty at its
\* first step; its k-th step (k = 0, 1, ...) combines the current prediction
\* with exactly the min(k, 3) predictions of its own preceding steps, latest
\* first; the extra (bootstrap) oracle call is made at the first step and at
\* no other; a run of N steps makes N + 1 oracle calls; all this also when
\* the run follows an earlier pndm run on the engine.
C8_PlmsWarmStart ==
    \A c \in Calls :
        call[c].sampler = "pndm" =>
            LET r == call[c] IN
            /\ (r.pc = "loop" /\ r.steps = << >> => deques[noise_list] = << >>)
            /\ (r.pc = "oracle" /\ r.steps = << >> => deques[r.nl] = << >>)
            /\ Len(r.used) = Len(r.steps)
            /\ Len(r.read) <= Min(Len(r.steps), 3)
            /\ \A j \in DOMAIN r.read :
                   r.read[j] = [call |-> c, at |-> r.steps[Len(r.steps) + 1 - j]]
            /\ \A k \in DOMAIN r.used :
                   /\ Len(r.used[k]) = Min(k - 1, 3)
                   /\ \A j \in DOMAIN r.used[k] :
                          r.used[k][j] = [call |-> c, at |-> r.steps[k - j]]
            /\ \A k \in DOMAIN r.oracle : (r.oracle[k].kind = "boot") <=> (k = 2)
            /\ (r.steps # << >> /\ r.pc \in {"loop", "done"} =>
                   Len(r.oracle) = Len(r.steps) + 1)
            /\ (Ended(c) /\ r.outcome = "output" =>
                   Len(r.oracle) = Cardinality({i \in 0..(r.t - 1) : i % r.infer_speedup = 0}) + 1)

C8_Witness ==
    \E c \in Calls :
        /\ call[c].sampler = "pndm"
        /\ call[c].follows
        /\ Ended(c)
        /\ call[c].outcome = "output"
        /\ Len(call[c].steps) > 4

\* ----------------------------------------------------------------------- C9
\* C9 (as claimed): the extra oracle call of the bootstrap step at timestep
\* t is issued at t - interval, not floored at 0.
C9_BootUnfloored ==
    \A c \in Calls :
        \A k \in DOMAIN call[c].oracle :
            call[c].oracle[k].kind = "boot" =>
                call[c].oracle[k].at = call[c].oracle[k - 1].at - call[c].infer_speedup

\* C9 (amended): the extra oracle call of the bootstrap step at timestep t
\* is issued at max(t - interval, 0): it is floored at 0 like the
\* coefficient lookups of the same step, whose a_prev index it equals.
C9_BootFloored ==
    \A c \in Calls :
        \A k \in DOMAIN call[c].oracle :
            call[c].oracle[k].kind = "boot" =>
                LET t == call[c].oracle[k - 1].at
                    at == call[c].oracle[k].at
                IN
                /\ at >= 0
                /\ at = (IF t - call[c].infer_speedup < 0 THEN 0
                         ELSE t - call[c].infer_speedup)
                /\ at \in call[c].lookups

C9_Witness ==
    \E c \in Calls :
        \E k \in DOMAIN call[c].oracle :
            /\ call[c].oracle[k].kind = "boot"
            /\ call[c].oracle[k - 1].at - call[c].infer_speedup < 0
            /\ call[c].oracle[k].at = 0

\* ---------------------------------------------------------------------- C10
\* C10: in a call of the ancestral loop, ddim or pndm with start step in
\* 1..T and speedup >= 1, every index looked up in a coefficient table lies
\* in [0, T): the index start - 1 of q_sample and the indices t and
\* max(t - interval, 0) of the steps.
C10_LookupsInRange ==
    \A c \in Calls :
        /\ call[c].sampler \in {"ancestral", "ddim", "pndm"}
        /\ call[c].t >= 1 /\ call[c].t <= engine.num_timesteps
        /\ call[c].infer_speedup >= 1
        => \A i \in call[c].lookups : 0 <= i /\ i < engine.num_timesteps

C10_Witness ==
    \E c \in Calls :
        /\ call[c].sampler \in {"ddim", "pndm"}
        /\ Ended(c)
        /\ call[c].outcome = "output"
        /\ call[c].t = engine.num_timesteps
        /\ {0, engine.num_timesteps - 1} \subseteq call[c].lookups
        /\ call[c].steps[Len(call[c].steps)] - call[c].infer_speedup < 0

====
